---- MODULE Spec2Model ----
(***************************************************************************)
(* Model of the scheduling and playback-orchestration core of moerduo:     *)
(* the poll loop of src-tauri/src/scheduler.rs, the store tables of        *)
(* src-tauri/src/db.rs it reads and writes, and the playback device of     *)
(* src-tauri/src/player.rs it drives.                                      *)
(*                                                                         *)
(* Time is the local wall clock in seconds since local midnight of day 0.  *)
(* A datetime text "YYYY-MM-DD HH:MM:SS" is modelled by the number of      *)
(* seconds it denotes when read as a naive timestamp, so that the text     *)
(* comparison SQLite performs is the comparison of these numbers.          *)
(***************************************************************************)
EXTENDS Integers, Sequences, FiniteSets, TLC

\* ------------------------------------------------------------------ bounds

\* Number of local calendar days the poll loop is followed for.
MaxDays == 2

\* Number of inserts into execution_history the store refuses in a run.
MaxInsertFailures == 1

\* Number of player commands the user issues in a run.
MaxCommands == 2

\* Longest fade-in, in seconds, a task is given where the ramp is followed.
MaxFade == 4

\* ------------------------------------------------------- program constants

\* interval(Duration::from_secs(10))
PollSeconds == 10
SecondsPerDay == 24 * 60 * 60

\* ----------------------------------------------------------- input domains

TaskIds == {1, 2}
PlaylistIds == {1, 2, 3}
AudioIds == {1, 2, 3}

RepeatModes == {"daily", "weekday", "weekend", "custom", "once"}

\* custom_days is an Option<String>: absent, a text that is no JSON array of
\* integers, or a JSON array of integers.
NoDays == [kind |-> "none", days |-> {}]
BadDays == [kind |-> "bad", days |-> {}]
JsonDays(S) == [kind |-> "json", days |-> S]

\* UTC offsets of the local time zone, in seconds (local = UTC + offset).
TzOffsets == {-8 * 3600, 0, 8 * 3600}

\* Scheduled times the tasks of a run are drawn from.
TaskTimes == {<<7, 0>>, <<23, 59>>}

\* Cadences the tasks of a run are drawn from.
TaskCadences ==
  {<<"daily", NoDays>>, <<"once", NoDays>>}

\* Local times of day 0 at which the program is started, drawn on the grid of
\* the poll interval.
StartTimes == {6 * 3600}

\* Days of the week (0 = Sunday) day 0 of a run is drawn from.
StartDays == {4}

\* The audio library: recorded duration in seconds and whether the file can
\* be opened and decoded. Audio 1 is longer than a firing window.
AudioLibrary ==
  [a \in AudioIds |->
     CASE a = 1 -> [duration |-> 200, playable |-> TRUE, play_count |-> 0]
       [] a = 2 -> [duration |-> 5, playable |-> TRUE, play_count |-> 0]
       [] a = 3 -> [duration |-> 5, playable |-> FALSE, play_count |-> 0]]

\* The playlists (audio ids in sort_order): one that plays through and holds
\* an audio twice, an empty one, and one whose second entry cannot be opened.
Playlists ==
  [pl \in PlaylistIds |->
     CASE pl = 1 -> <<1, 2, 2>>
       [] pl = 2 -> << >>
       [] pl = 3 -> <<2, 3, 1>>]

\* Table playlist_items as add_to_playlist leaves it: entry k of a playlist
\* carries sort_order k - 1.
PlaylistItems ==
  UNION {{[playlist_id |-> pl, audio_id |-> Playlists[pl][k], sort_order |-> k - 1] :
            k \in DOMAIN Playlists[pl]} : pl \in PlaylistIds}

VARIABLES
  now,                \* local wall clock, seconds since local midnight of day 0
  tzOffset,           \* local time minus UTC, seconds
  startDow,           \* day of the week of day 0, 0 = Sunday .. 6 = Saturday
  scheduled_tasks,    \* table scheduled_tasks: id -> row
  playlist_items,     \* table playlist_items: set of rows
  audio_files,        \* table audio_files: id -> row
  execution_history,  \* table execution_history: rows in insertion order
  player,             \* the AudioPlayer behind its mutex
  pc,                 \* position of the poll loop
  nextTick,           \* deadline of the interval's next tick
  tickNow,            \* `now` captured by the running tick
  pending,            \* tasks the running tick's for loop has not reached yet
  run,                \* frame of the running play_playlist call
  insertFailures,     \* inserts the store has refused so far
  held,               \* mutexes the poll loop's task holds while suspended
  commands,           \* player commands the user has issued so far
  reply,              \* the last player command and what it returned
  probe,              \* result of the decision last evaluated on its own
  threads             \* per task of the runtime: the lock operations left of
                      \* its call and the guards it holds, oldest first

vars == <<now, tzOffset, startDow, scheduled_tasks, playlist_items, audio_files,
          execution_history, player, pc, nextTick, tickNow, pending, run,
          insertFailures, held, commands, reply, probe, threads>>

\* What the poll loop and the orchestrator never write.
env == <<tzOffset, startDow, commands, reply, probe, threads>>

\* ------------------------------------------------------------- clock reads

Max(a, b) == IF a >= b THEN a ELSE b

\* now.hour(), now.minute()
HourOf(t) == (t % SecondsPerDay) \div 3600
MinuteOf(t) == (t % 3600) \div 60
DayOf(t) == t \div SecondsPerDay

\* The day of the week of local time t, 0 = Sunday .. 6 = Saturday.
DowOf(t, dow0) == (dow0 + DayOf(t)) % 7

\* chrono's Weekday::number_from_sunday: Sunday = 1 .. Saturday = 7.
NumberFromSunday(dow) == dow + 1

\* datetime('now'): SQLite's current time is UTC.
DatetimeNow(t, off) == t - off

\* format!("{} 00:00:00", now.format("%Y-%m-%d")): the local date at midnight.
TodayStart(t) == DayOf(t) * SecondsPerDay

\* ------------------------------------------------- the scheduler's decisions

\* time_matches without the rollover across midnight.
TimeMatchesNoMidnight(hour, minute, current_hour, current_minute) ==
  IF current_minute = 0
  THEN \/ (hour = current_hour /\ minute = 0)
       \/ (hour = current_hour - 1 /\ minute = 59)
  ELSE \/ (hour = current_hour /\ minute = current_minute)
       \/ (hour = current_hour /\ minute = current_minute - 1)

\* time_matches: the task's (hour, minute) is the current minute or the one
\* before it.
TimeMatches(hour, minute, current_hour, current_minute) ==
  IF current_minute = 0
  THEN \/ (hour = current_hour /\ minute = 0)
       \/ (hour = (IF current_hour = 0 THEN 23 ELSE current_hour - 1) /\ minute = 59)
  ELSE \/ (hour = current_hour /\ minute = current_minute)
       \/ (hour = current_hour /\ minute = current_minute - 1)

\* SELECT COUNT(*) FROM execution_history WHERE task_id = ?1
HistoryCount(history, task_id) ==
  Cardinality({i \in DOMAIN history : history[i].task_id = task_id})

\* should_execute with a "once" arm that does not read the history.
ShouldExecuteOnceAlways(repeat_mode, custom_days, current_weekday, executed) ==
  CASE repeat_mode = "daily" -> TRUE
    [] repeat_mode = "weekday" -> current_weekday >= 1 /\ current_weekday <= 5
    [] repeat_mode = "weekend" -> current_weekday = 0 \/ current_weekday = 6
    [] repeat_mode = "custom" ->
         IF custom_days.kind = "json" THEN current_weekday \in custom_days.days
                                      ELSE FALSE
    [] repeat_mode = "once" -> TRUE
    [] OTHER -> FALSE

\* should_execute: the match on repeat_mode; `executed` is the row count the
\* "once" arm reads from the store.
ShouldExecute(repeat_mode, custom_days, current_weekday, executed) ==
  CASE repeat_mode = "daily" -> TRUE
    [] repeat_mode = "weekday" -> current_weekday >= 1 /\ current_weekday <= 5
    [] repeat_mode = "weekend" -> current_weekday = 0 \/ current_weekday = 6
    [] repeat_mode = "custom" ->
         IF custom_days.kind = "json" THEN current_weekday \in custom_days.days
                                      ELSE FALSE
    [] repeat_mode = "once" -> executed = 0
    [] OTHER -> FALSE

\* already_executed_today: a row of the task whose execution_time text is not
\* below the text of today's local midnight.
AlreadyExecutedToday(history, task_id, t) ==
  Cardinality({i \in DOMAIN history :
                 /\ history[i].task_id = task_id
                 /\ history[i].execution_time >= TodayStart(t)}) > 0

\* The whole test of one loop iteration: the task is fired by the tick that
\* captured local time t.
IsDue(task_id, task, history, t, dow0) ==
  /\ TimeMatches(task.hour, task.minute, HourOf(t), MinuteOf(t))
  /\ ShouldExecute(task.repeat_mode, task.custom_days,
                   NumberFromSunday(DowOf(t, dow0)),
                   HistoryCount(history, task_id))
  /\ ~AlreadyExecutedToday(history, task_id, t)

\* ------------------------------------------------------------ store writes

\* INSERT INTO execution_history (task_id, status, execution_time)
\* VALUES (?1, 'started', datetime('now'))
InsertStarted(history, task_id, t, off) ==
  Append(history, [task_id |-> task_id, status |-> "started",
                   execution_time |-> DatetimeNow(t, off)])

SetMax(S) == CHOOSE x \in S : \A y \in S : y <= x

\* The failure recorded on the task's oldest row instead of its newest.
MarkFailedOldest(history, task_id) ==
  LET mine == {i \in DOMAIN history : history[i].task_id = task_id}
  IN IF mine = {} THEN history
     ELSE LET mn == CHOOSE x \in {history[i].execution_time : i \in mine} :
                      \A y \in {history[i].execution_time : i \in mine} : x <= y
          IN [i \in DOMAIN history |->
                IF i \in mine /\ history[i].execution_time = mn
                THEN [history[i] EXCEPT !.status = "failed"]
                ELSE history[i]]

\* UPDATE execution_history SET status = 'failed' WHERE task_id = ?1 AND
\* execution_time = (SELECT MAX(execution_time) ... WHERE task_id = ?1)
MarkFailed(history, task_id) ==
  LET mine == {i \in DOMAIN history : history[i].task_id = task_id}
  IN IF mine = {} THEN history
     ELSE LET mx == SetMax({history[i].execution_time : i \in mine})
          IN [i \in DOMAIN history |->
                IF i \in mine /\ history[i].execution_time = mx
                THEN [history[i] EXCEPT !.status = "failed"]
                ELSE history[i]]

\* UPDATE execution_history SET status = 'completed' WHERE
\* execution_time = (SELECT MAX(execution_time) FROM execution_history)
MarkCompleted(history) ==
  IF history = << >> THEN history
  ELSE LET mx == SetMax({history[i].execution_time : i \in DOMAIN history})
       IN [i \in DOMAIN history |->
             IF history[i].execution_time = mx
             THEN [history[i] EXCEPT !.status = "completed"]
             ELSE history[i]]

\* The entries of a playlist read in descending sort_order.
ResolvePlaylistDesc(items, playlist_id) ==
  LET rows == {r \in items : r.playlist_id = playlist_id}
      n == Cardinality(rows)
      sorted == CHOOSE f \in [1..n -> rows] :
                  \A i, j \in 1..n : i < j => f[i].sort_order > f[j].sort_order
  IN [i \in 1..n |-> sorted[i].audio_id]

\* SELECT ... FROM playlist_items ... WHERE playlist_id = ?1 ORDER BY
\* sort_order: the audio ids of the playlist's entries in ascending sort_order.
ResolvePlaylist(items, playlist_id) ==
  LET rows == {r \in items : r.playlist_id = playlist_id}
      n == Cardinality(rows)
      sorted == CHOOSE f \in [1..n -> rows] :
                  \A i, j \in 1..n : i < j => f[i].sort_order < f[j].sort_order
  IN [i \in 1..n |-> sorted[i].audio_id]

\* The update without its WHERE clause: every audio is counted.
CountPlayAll(files, audio_id) ==
  [a \in DOMAIN files |-> [files[a] EXCEPT !.play_count = @ + 1]]

\* UPDATE audio_files SET play_count = play_count + 1 ... WHERE id = ?1
CountPlay(files, audio_id) ==
  [files EXCEPT ![audio_id].play_count = @ + 1]

\* ----------------------------------------------------------- the device

\* A volume is the fraction num / den.
Vol(num, den) == [num |-> num, den |-> den]

\* AudioPlayer::new
NewPlayer ==
  [current_audio_id |-> 0, playlist_queue |-> << >>, current_index |-> 0,
   volume |-> Vol(1, 2), is_auto_play |-> FALSE, sink |-> "none"]

\* The queue replaced without the position being reset.
SetPlaylistQueueKeepIndex(p, queue, is_auto_play) ==
  [p EXCEPT !.playlist_queue = queue, !.is_auto_play = is_auto_play]

\* AudioPlayer::set_playlist_queue
SetPlaylistQueue(p, queue, is_auto_play) ==
  [p EXCEPT !.playlist_queue = queue, !.current_index = 0,
            !.is_auto_play = is_auto_play]

\* AudioPlayer::set_volume: clamps to [0, 1].
SetVolume(p, v) ==
  [p EXCEPT !.volume = IF v.num < 0 THEN Vol(0, 1)
                       ELSE IF v.num > v.den THEN Vol(1, 1) ELSE v]

\* AudioPlayer::play_with_info: the current audio is recorded before play()
\* is tried; on success a new sink plays the file.
PlayWithInfo(p, audio_id, ok) ==
  [p EXCEPT !.current_audio_id = audio_id,
            !.sink = IF ok THEN "playing" ELSE @]

\* AudioPlayer::play_next: the position moves on when an entry follows it.
HasNext(p) == p.current_index + 1 < Len(p.playlist_queue)

\* AudioPlayer::pause
Pause(p) == [p EXCEPT !.sink = IF @ = "playing" THEN "paused" ELSE @]

\* AudioPlayer::stop
Stop(p) ==
  [p EXCEPT !.sink = "none", !.current_audio_id = 0, !.playlist_queue = << >>,
            !.current_index = 0, !.is_auto_play = FALSE]

\* ------------------------------------------------------------ initial state

\* Volumes and priorities the tasks of a run are drawn from.
TaskVolumes == {80}
TaskPriorities == {0}

\* duration_minutes is an Option<i64>: absent, or a number of minutes.
NoDuration == [kind |-> "none", minutes |-> 0]
SomeDuration(d) == [kind |-> "some", minutes |-> d]

TaskRow(tm, cd, pl, vo, fa, pr) ==
  [hour |-> tm[1], minute |-> tm[2], repeat_mode |-> cd[1], custom_days |-> cd[2],
   playlist_id |-> pl, volume |-> vo, fade_in_duration |-> fa, priority |-> pr,
   duration_minutes |-> NoDuration, is_enabled |-> TRUE]

\* Task 1 ranges over every time, cadence and playlist, without fade-in; task 2
\* is a daily companion with a fade-in of 2 s, due in the same minute with the
\* playlist that plays through or in the next minute with the empty one.
TaskRows(id) ==
  IF id = 1
  THEN {TaskRow(tm, cd, pl, vo, 0, pr) :
          tm \in TaskTimes, cd \in TaskCadences, pl \in PlaylistIds,
          vo \in TaskVolumes, pr \in TaskPriorities}
  ELSE {TaskRow(c[1], <<"daily", NoDays>>, c[2], vo, 2, pr) :
          c \in {<<<<7, 0>>, 1>>, <<<<7, 1>>, 2>>},
          vo \in TaskVolumes, pr \in TaskPriorities}

NoProbe == [kind |-> "none"]

\* The tasks of the runtime that take the two mutexes: the poll loop and two
\* command handlers that may run at the same time. None is inside a call.
Parties == {"scheduler", "command1", "command2"}
NoThreads == [p \in Parties |-> [ops |-> << >>, guards |-> << >>]]

\* The frame of a play_playlist call: its arguments, the entries not played
\* yet and the step of the ramp. With it are kept, for the statement of the
\* properties only, the row inserted for the firing (0: none), the play
\* counts at the call, the steps the call has taken, whether a manual
\* play_playlist replaced the device's queue during one of its sleeps, and
\* the time at which the entry being played was started.
NoRun == [task_id |-> 0, playlist_id |-> 0, volume |-> 0, fade_in_duration |-> 0,
          audio_files |-> << >>, fade_i |-> 0,
          row |-> 0, counts0 |-> << >>, events |-> << >>, superseded |-> FALSE,
          entry_started |-> 0]

PlayCounts(files) == [a \in AudioIds |-> files[a].play_count]

NoReply == [cmd |-> "none"]

Init ==
  /\ now \in StartTimes
  /\ tzOffset \in TzOffsets
  /\ startDow \in StartDays
  /\ scheduled_tasks \in {t \in [TaskIds -> UNION {TaskRows(id) : id \in TaskIds}] :
                           \A id \in TaskIds : t[id] \in TaskRows(id)}
  /\ playlist_items = PlaylistItems
  /\ audio_files = AudioLibrary
  /\ execution_history = << >>
  /\ player = NewPlayer
  /\ pc = "sleep"
  /\ nextTick = now
  /\ tickNow = now
  /\ pending = << >>
  /\ run = NoRun
  /\ insertFailures = 0
  /\ held = {}
  /\ commands = 0
  /\ reply = NoReply
  /\ probe = NoProbe
  /\ threads = NoThreads

\* ------------------------------------------------------------ the poll loop

Horizon == MaxDays * SecondsPerDay

\* Some task passes every test of its loop iteration in a tick that captures
\* local time t: such a tick fires a task; in any other tick every iteration
\* ends in `continue` and nothing is written.
DueAt(t) ==
  \E id \in TaskIds :
    IsDue(id, scheduled_tasks[id], execution_history, t, startDow)

\* The starts of the two minutes of every firing window: the outcome of the
\* tests changes between two ticks only when one of these is passed.
WindowMinutes ==
  UNION {{w, w + 60} :
           w \in {d * SecondsPerDay
                    + (scheduled_tasks[id].hour * 60 + scheduled_tasks[id].minute) * 60 :
                    d \in 0..MaxDays, id \in TaskIds}}

SetMin(S) == CHOOSE x \in S : \A y \in S : x <= y

\* The order of the query with the priority ascending.
OrderedBeforeAscending(tasks, a, b) ==
  \/ tasks[a].priority < tasks[b].priority
  \/ tasks[a].priority = tasks[b].priority /\ tasks[a].hour < tasks[b].hour
  \/ /\ tasks[a].priority = tasks[b].priority /\ tasks[a].hour = tasks[b].hour
     /\ tasks[a].minute < tasks[b].minute
  \/ /\ tasks[a].priority = tasks[b].priority /\ tasks[a].hour = tasks[b].hour
     /\ tasks[a].minute = tasks[b].minute /\ a < b

\* ORDER BY priority DESC, hour, minute; rows the ORDER BY does not separate
\* come in rowid order, the order of the table scan.
OrderedBefore(tasks, a, b) ==
  \/ tasks[a].priority > tasks[b].priority
  \/ tasks[a].priority = tasks[b].priority /\ tasks[a].hour < tasks[b].hour
  \/ /\ tasks[a].priority = tasks[b].priority /\ tasks[a].hour = tasks[b].hour
     /\ tasks[a].minute < tasks[b].minute
  \/ /\ tasks[a].priority = tasks[b].priority /\ tasks[a].hour = tasks[b].hour
     /\ tasks[a].minute = tasks[b].minute /\ a < b

\* The result of the task query: the enabled tasks in the query's order.
LoadTasks(tasks) ==
  LET enabled == {id \in TaskIds : tasks[id].is_enabled}
      n == Cardinality(enabled)
  IN CHOOSE s \in [1..n -> enabled] :
       \A i, j \in 1..n : i < j => OrderedBefore(tasks, s[i], s[j])

\* The tick with the run of a fired task not awaited: the next tick is
\* evaluated while the run sleeps on an entry.
TickDuringRun ==
  /\ pc \in {"sleep", "wait"}
  /\ LET t == Max(now, nextTick)
     IN /\ t < Horizon
        /\ DueAt(t)
        /\ now' = t
        /\ tickNow' = t
  /\ nextTick' = nextTick + PollSeconds
  /\ pending' = LoadTasks(scheduled_tasks)
  /\ pc' = "for"
  /\ UNCHANGED <<env, held, insertFailures, scheduled_tasks, playlist_items, audio_files,
                 execution_history, player, run>>

\* interval.tick() completes and check_and_execute_tasks captures `now` and
\* loads the enabled tasks.
Tick ==
  /\ pc = "sleep"
  /\ LET t == Max(now, nextTick)
     IN /\ t < Horizon
        /\ DueAt(t)
        /\ now' = t
        /\ tickNow' = t
  /\ nextTick' = nextTick + PollSeconds
  /\ pending' = LoadTasks(scheduled_tasks)
  /\ pc' = "for"
  /\ UNCHANGED <<env, held, insertFailures, scheduled_tasks, playlist_items, audio_files,
                 execution_history, player, run>>

\* A run of ticks in which no task is due: every iteration of each of them
\* continues, and the loop sleeps on until the first tick in which a task is
\* due. Ticks fall on the grid of the poll interval, which holds the start of
\* every minute.
IdleTicks ==
  /\ pc = "sleep"
  /\ LET t == Max(now, nextTick)
         later == {w \in WindowMinutes : w > t /\ w < Horizon /\ DueAt(w)}
     IN /\ ~DueAt(t)
        /\ later # {}
        /\ now' = SetMin(later)
        /\ nextTick' = SetMin(later)
  /\ UNCHANGED <<env, held, insertFailures, scheduled_tasks, playlist_items, audio_files,
                 execution_history, player, pc, tickNow, pending, run>>

\* One iteration of the for loop that ends in `continue`.
ForSkip ==
  /\ pc = "for"
  /\ pending # << >>
  /\ ~IsDue(Head(pending), scheduled_tasks[Head(pending)], execution_history,
            tickNow, startDow)
  /\ pending' = Tail(pending)
  /\ UNCHANGED <<now, env, held, insertFailures, scheduled_tasks, playlist_items, audio_files,
                 execution_history, player, pc, nextTick, tickNow, run>>

\* One iteration of the for loop that fires the task: the started row is
\* inserted (the result of the insert is dropped) and play_playlist is called.
ForFire ==
  /\ pc = "for"
  /\ pending # << >>
  /\ LET id == Head(pending)
         task == scheduled_tasks[id]
     IN /\ IsDue(id, task, execution_history, tickNow, startDow)
        /\ \/ /\ execution_history' =
                   InsertStarted(execution_history, id, now, tzOffset)
              /\ UNCHANGED insertFailures
           \/ /\ insertFailures < MaxInsertFailures
              /\ insertFailures' = insertFailures + 1
              /\ UNCHANGED execution_history
        /\ run' = [task_id |-> id, playlist_id |-> task.playlist_id,
                   volume |-> task.volume,
                   fade_in_duration |-> task.fade_in_duration,
                   audio_files |-> << >>, fade_i |-> 0,
                   row |-> IF Len(execution_history') > Len(execution_history)
                           THEN Len(execution_history') ELSE 0,
                   counts0 |-> PlayCounts(audio_files),
                   events |-> << >>, superseded |-> FALSE, entry_started |-> 0]
  /\ pc' = "play_playlist"
  /\ UNCHANGED <<now, env, held, scheduled_tasks, playlist_items, audio_files,
                 player, nextTick, tickNow, pending>>

\* The for loop is over: check_and_execute_tasks returns and the loop awaits
\* the next tick.
ForDone ==
  /\ pc = "for"
  /\ pending = << >>
  /\ pc' = "sleep"
  /\ UNCHANGED <<now, env, held, insertFailures, scheduled_tasks, playlist_items, audio_files,
                 execution_history, player, nextTick, tickNow, pending, run>>

\* --------------------------------------------------------- the orchestrator

\* The Err arm of the call in check_and_execute_tasks: the failure is
\* recorded and the for loop goes on with the next task.
RunFailed ==
  /\ execution_history' = MarkFailed(execution_history, run.task_id)
  /\ pc' = "for"
  /\ pending' = Tail(pending)
  /\ run' = NoRun

\* play_playlist resolves the playlist: an empty one is an error, otherwise
\* the device's queue is replaced.
LoadPlaylist ==
  /\ pc = "play_playlist"
  /\ LET files == ResolvePlaylist(playlist_items, run.playlist_id)
     IN IF files = << >>
        THEN /\ RunFailed
             /\ UNCHANGED player
        ELSE /\ player' = SetPlaylistQueue(player, files, TRUE)
             /\ run' = [run EXCEPT !.audio_files = files]
             /\ pc' = "entry"
             /\ UNCHANGED <<execution_history, pending>>
  /\ UNCHANGED <<now, env, held, insertFailures, scheduled_tasks, playlist_items, audio_files,
                 nextTick, tickNow>>

\* The volume an entry starts with when the fade-in is not looked at.
StartVolumeTarget(volume, fade_in_duration) == Vol(volume, 100)

\* The volume an entry starts with: 0 under fade-in, else volume / 100.
StartVolume(volume, fade_in_duration) ==
  IF fade_in_duration > 0 THEN Vol(0, 1) ELSE Vol(volume, 100)

\* The mutexes still held once an entry has been started: player_guard,
\* taken at the head of the iteration, is dropped before the ramp when a
\* fade-in is configured and in the else branch when none is.
GuardsAfterStartKept(guards, fade_in_duration) ==
  IF fade_in_duration > 0 THEN guards \ {"player"} ELSE guards

GuardsAfterStart(guards, fade_in_duration) ==
  IF fade_in_duration > 0 THEN guards \ {"player"} ELSE guards \ {"player"}

\* The head of one entry's iteration with a failed start skipped: the run
\* goes on with the entry after it.
StartEntrySkipping ==
  /\ pc = "entry"
  /\ "player" \notin held
  /\ LET audio_id == Head(run.audio_files)
         ok == audio_files[audio_id].playable
         p1 == SetVolume(player, StartVolume(run.volume, run.fade_in_duration))
     IN /\ player' = PlayWithInfo(p1, audio_id, ok)
        /\ IF ok
           THEN /\ pc' = IF run.fade_in_duration > 0 THEN "fade" ELSE "wait"
                /\ run' = [run EXCEPT !.fade_i = 0, !.entry_started = now,
                                      !.events = Append(@, <<"start", audio_id>>)]
           ELSE /\ pc' = IF Tail(run.audio_files) = << >> THEN "complete" ELSE "entry"
                /\ run' = [run EXCEPT !.audio_files = Tail(@)]
        /\ held' = GuardsAfterStart(held \cup {"player"}, run.fade_in_duration)
  /\ UNCHANGED <<now, env, insertFailures, scheduled_tasks, playlist_items, audio_files,
                 execution_history, pending, nextTick, tickNow>>

\* The head of one entry's iteration: the volume is set and playback of the
\* entry is started; a failure to open or start it ends the run with Err.
StartEntry ==
  /\ pc = "entry"
  /\ "player" \notin held
  /\ LET audio_id == Head(run.audio_files)
         ok == audio_files[audio_id].playable
         p1 == SetVolume(player, StartVolume(run.volume, run.fade_in_duration))
     IN /\ player' = PlayWithInfo(p1, audio_id, ok)
        /\ IF ok
           THEN /\ pc' = IF run.fade_in_duration > 0 THEN "fade" ELSE "wait"
                /\ run' = [run EXCEPT !.fade_i = 0, !.entry_started = now,
                                      !.events = Append(@, <<"start", audio_id>>)]
                /\ held' = GuardsAfterStart(held \cup {"player"}, run.fade_in_duration)
                /\ UNCHANGED <<execution_history, pending>>
           ELSE /\ RunFailed
                /\ held' = held
  /\ UNCHANGED <<now, env, insertFailures, scheduled_tasks, playlist_items, audio_files,
                 nextTick, tickNow>>

\* The ramp one step ahead: volume_step * (i + 1), capped at the target.
FadeVolumeAhead(volume, steps, i) ==
  IF i + 1 >= steps THEN Vol(volume, 100) ELSE Vol(volume * (i + 1), 100 * steps)

\* volume_step * i, capped at the target: (volume / 100 / steps) * i.
FadeVolume(volume, steps, i) ==
  IF i >= steps THEN Vol(volume, 100) ELSE Vol(volume * i, 100 * steps)

\* One iteration of the ramp `for i in 0..=steps`: the volume of step i is
\* set and the run sleeps one second.
FadeStep ==
  /\ pc = "fade"
  /\ "player" \notin held
  /\ player' = SetVolume(player, FadeVolume(run.volume, run.fade_in_duration, run.fade_i))
  /\ now' = now + 1
  /\ run' = [run EXCEPT !.fade_i = @ + 1]
  /\ pc' = IF run.fade_i >= run.fade_in_duration THEN "wait" ELSE "fade"
  /\ UNCHANGED <<env, held, insertFailures, scheduled_tasks, playlist_items, audio_files,
                 execution_history, nextTick, tickNow, pending>>

\* sleep(duration): the run waits the entry's recorded duration.
WaitEntry ==
  /\ pc = "wait"
  /\ now' = now + audio_files[Head(run.audio_files)].duration
  /\ run' = [run EXCEPT !.events = Append(@, <<"wait", Head(run.audio_files)>>)]
  /\ pc' = "count"
  /\ UNCHANGED <<env, held, insertFailures, scheduled_tasks, playlist_items, audio_files,
                 execution_history, player, nextTick, tickNow, pending>>

\* The play count of the entry is updated and the loop moves to the next
\* entry; the guards of the iteration go out of scope.
CountEntry ==
  /\ pc = "count"
  /\ audio_files' = CountPlay(audio_files, Head(run.audio_files))
  /\ run' = [run EXCEPT !.audio_files = Tail(@),
                        !.events = Append(@, <<"count", Head(run.audio_files)>>)]
  /\ pc' = IF Tail(run.audio_files) = << >> THEN "complete" ELSE "entry"
  /\ held' = {}
  /\ UNCHANGED <<now, env, insertFailures, scheduled_tasks, playlist_items, execution_history,
                 player, nextTick, tickNow, pending>>

\* After the last entry play_playlist records the completion and returns Ok.
Complete ==
  /\ pc = "complete"
  /\ execution_history' = MarkCompleted(execution_history)
  /\ pc' = "for"
  /\ pending' = Tail(pending)
  /\ run' = NoRun
  /\ UNCHANGED <<now, env, held, insertFailures, scheduled_tasks, playlist_items, audio_files,
                 player, nextTick, tickNow>>

Next ==
  \/ Tick
  \/ IdleTicks
  \/ ForSkip
  \/ ForFire
  \/ ForDone
  \/ LoadPlaylist
  \/ StartEntry
  \/ FadeStep
  \/ WaitEntry
  \/ CountEntry
  \/ Complete

Spec == Init /\ [][Next]_vars

\* ------------------------------------------------------ the player commands

\* Volumes the user asks for: inside and above the range.
CommandVolumes == {Vol(3, 10), Vol(3, 2)}

\* A command takes the player mutex: it waits while the poll loop's task
\* holds it.
CanCommand ==
  /\ commands < MaxCommands
  /\ "player" \notin held

\* What every command leaves alone.
CommandFrame ==
  UNCHANGED <<now, tzOffset, startDow, threads, probe, scheduled_tasks, playlist_items,
              execution_history, pc, nextTick, tickNow, pending, insertFailures,
              held>>

\* The reply of a command, with the position of the poll loop it met; the
\* reply of play_playlist also tells the playlist, the position the device
\* held before and the steps the command took.
Reply(cmd, result) == [cmd |-> cmd, result |-> result, at |-> pc]

\* pause_audio
CmdPause ==
  /\ CanCommand
  /\ player' = Pause(player)
  /\ commands' = commands + 1
  /\ reply' = Reply("pause_audio", "ok")
  /\ UNCHANGED <<audio_files, run>>
  /\ CommandFrame

\* stop_audio
CmdStop ==
  /\ CanCommand
  /\ player' = Stop(player)
  /\ commands' = commands + 1
  /\ reply' = Reply("stop_audio", "ok")
  /\ UNCHANGED <<audio_files, run>>
  /\ CommandFrame

\* set_volume
CmdSetVolume ==
  /\ CanCommand
  /\ \E v \in CommandVolumes : player' = SetVolume(player, v)
  /\ commands' = commands + 1
  /\ reply' = Reply("set_volume", "ok")
  /\ UNCHANGED <<audio_files, run>>
  /\ CommandFrame

\* play_next: when an entry follows the position, the position moves to it,
\* the entry is started and, if that succeeded, its play count is updated.
CmdPlayNext ==
  /\ CanCommand
  /\ IF player.playlist_queue # << >> /\ HasNext(player)
     THEN LET p1 == [player EXCEPT !.current_index = @ + 1]
              audio_id == p1.playlist_queue[p1.current_index + 1]
              ok == audio_files[audio_id].playable
          IN /\ player' = PlayWithInfo(p1, audio_id, ok)
             /\ audio_files' = IF ok THEN CountPlay(audio_files, audio_id)
                                     ELSE audio_files
             /\ reply' = Reply("play_next", IF ok THEN "ok" ELSE "err")
     ELSE /\ UNCHANGED <<player, audio_files>>
          /\ reply' = Reply("play_next", "ok")
  /\ commands' = commands + 1
  /\ UNCHANGED run
  /\ CommandFrame

\* The manual play_playlist command with the queue replaced before the list
\* is tested for emptiness.
CmdPlayPlaylistQueueFirst ==
  /\ CanCommand
  /\ \E playlist_id \in PlaylistIds, is_auto_play \in BOOLEAN :
       LET audio_ids == ResolvePlaylist(playlist_items, playlist_id)
       IN IF audio_ids = << >>
          THEN /\ reply' = [cmd |-> "play_playlist", result |-> "err", at |-> pc,
                            playlist_id |-> playlist_id,
                            index_before |-> player.current_index,
                            events |-> << >>]
               /\ player' = SetPlaylistQueue(player, audio_ids, is_auto_play)
               /\ UNCHANGED <<audio_files, run>>
          ELSE LET first_audio_id == audio_ids[1]
                   ok == audio_files[first_audio_id].playable
                   p1 == SetPlaylistQueue(player, audio_ids, is_auto_play)
               IN /\ player' = PlayWithInfo(p1, first_audio_id, ok)
                  /\ audio_files' = IF ok THEN CountPlay(audio_files, first_audio_id)
                                          ELSE audio_files
                  /\ reply' = [cmd |-> "play_playlist",
                               result |-> IF ok THEN "ok" ELSE "err", at |-> pc,
                               playlist_id |-> playlist_id,
                               index_before |-> player.current_index,
                               events |-> IF ok
                                          THEN <<<<"start", first_audio_id>>,
                                                 <<"count", first_audio_id>>>>
                                          ELSE << >>]
                  /\ run' = IF pc \in {"fade", "wait"}
                            THEN [run EXCEPT !.superseded = TRUE] ELSE run
  /\ commands' = commands + 1
  /\ CommandFrame

\* The manual play_playlist command: the playlist's audio ids are read in
\* sort_order; an empty list is an error; otherwise the device's queue is
\* replaced, the first entry is started and, if that succeeded, its play
\* count is updated. The command then returns.
CmdPlayPlaylist ==
  /\ CanCommand
  /\ \E playlist_id \in PlaylistIds, is_auto_play \in BOOLEAN :
       LET audio_ids == ResolvePlaylist(playlist_items, playlist_id)
       IN IF audio_ids = << >>
          THEN /\ reply' = [cmd |-> "play_playlist", result |-> "err", at |-> pc,
                            playlist_id |-> playlist_id,
                            index_before |-> player.current_index,
                            events |-> << >>]
               /\ UNCHANGED <<player, audio_files, run>>
          ELSE LET first_audio_id == audio_ids[1]
                   ok == audio_files[first_audio_id].playable
                   p1 == SetPlaylistQueue(player, audio_ids, is_auto_play)
               IN /\ player' = PlayWithInfo(p1, first_audio_id, ok)
                  /\ audio_files' = IF ok THEN CountPlay(audio_files, first_audio_id)
                                          ELSE audio_files
                  /\ reply' = [cmd |-> "play_playlist",
                               result |-> IF ok THEN "ok" ELSE "err", at |-> pc,
                               playlist_id |-> playlist_id,
                               index_before |-> player.current_index,
                               events |-> IF ok
                                          THEN <<<<"start", first_audio_id>>,
                                                 <<"count", first_audio_id>>>>
                                          ELSE << >>]
                  /\ run' = IF pc \in {"fade", "wait"}
                            THEN [run EXCEPT !.superseded = TRUE] ELSE run
  /\ commands' = commands + 1
  /\ CommandFrame

\* One scheduled minute with the user at the player: the program is started
\* an hour before two daily tasks are due on the last day that is followed.
InitPlay ==
  /\ now = (MaxDays - 1) * SecondsPerDay + 6 * 3600
  /\ tzOffset = 0
  /\ startDow \in StartDays
  /\ scheduled_tasks \in {t \in [TaskIds -> UNION {TaskRows(id) : id \in TaskIds}] :
                           /\ \A id \in TaskIds : t[id] \in TaskRows(id)
                           /\ t[1].hour = 7
                           /\ t[1].repeat_mode = "daily"}
  /\ playlist_items = PlaylistItems
  /\ audio_files = AudioLibrary
  /\ execution_history = << >>
  /\ player = NewPlayer
  /\ pc = "sleep"
  /\ nextTick = now
  /\ tickNow = now
  /\ pending = << >>
  /\ run = NoRun
  /\ insertFailures = 0
  /\ held = {}
  /\ commands = 0
  /\ reply = NoReply
  /\ probe = NoProbe
  /\ threads = NoThreads

\* The ramp followed for every target volume and fade-in: the program is
\* started an hour before task 1 is due on the last day that is followed;
\* task 2 is due a minute later with the empty playlist.
FadeTargets == {0, 50, 80, 100}

InitFade ==
  /\ now = (MaxDays - 1) * SecondsPerDay + 6 * 3600
  /\ tzOffset = 0
  /\ startDow \in StartDays
  /\ \E vo \in FadeTargets, fa \in 0..MaxFade, pl \in {1, 3} :
       scheduled_tasks =
         [id \in TaskIds |->
            IF id = 1 THEN TaskRow(<<7, 0>>, <<"daily", NoDays>>, pl, vo, fa, 0)
                      ELSE TaskRow(<<7, 1>>, <<"daily", NoDays>>, 2, vo, fa, 0)]
  /\ playlist_items = PlaylistItems
  /\ audio_files = AudioLibrary
  /\ execution_history = << >>
  /\ player = NewPlayer
  /\ pc = "sleep"
  /\ nextTick = now
  /\ tickNow = now
  /\ pending = << >>
  /\ run = NoRun
  /\ insertFailures = 0
  /\ held = {}
  /\ commands = 0
  /\ reply = NoReply
  /\ probe = NoProbe
  /\ threads = NoThreads

SpecFade == InitFade /\ [][Next]_vars

NextPlay ==
  \/ Next
  \/ CmdPause
  \/ CmdStop
  \/ CmdSetVolume
  \/ CmdPlayNext
  \/ CmdPlayPlaylist

SpecPlay == InitPlay /\ [][NextPlay]_vars

\* ------------------------------------------------- the decisions on their own

\* Every cadence a task can carry: the five modes, and for custom every
\* custom_days value.
AllCadences ==
  {<<m, NoDays>> : m \in RepeatModes \ {"custom"}}
    \cup {<<"custom", d>> : d \in {NoDays, BadDays} \cup {JsonDays(S) : S \in SUBSET (0..6)}}

\* The program at rest at the start of a minute of day 0, before any tick.
AtRest ==
  /\ tzOffset = 0
  /\ audio_files = AudioLibrary
  /\ playlist_items = PlaylistItems
  /\ player = NewPlayer
  /\ pc = "sleep"
  /\ nextTick = 0
  /\ tickNow = 0
  /\ pending = << >>
  /\ run = NoRun
  /\ insertFailures = 0
  /\ held = {}
  /\ commands = 0
  /\ reply = NoReply
  /\ probe = NoProbe
  /\ threads = NoThreads

\* Any minute of the day, with one daily task.
InitWindow ==
  /\ AtRest
  /\ now \in {60 * k : k \in 0..1439}
  /\ startDow = 0
  /\ scheduled_tasks = [id \in TaskIds |-> TaskRow(<<7, 0>>, <<"daily", NoDays>>, 1, 80, 0, 0)]
  /\ execution_history = << >>

\* The time test of lines 83-90 at the current minute, applied to every
\* scheduled time a task can carry.
EvalWindow ==
  /\ probe = NoProbe
  /\ probe' = [kind |-> "window",
               matched |-> {tm \in (0..23) \X (0..59) :
                              TimeMatches(tm[1], tm[2], HourOf(now), MinuteOf(now))}]
  /\ UNCHANGED <<now, tzOffset, startDow, threads, scheduled_tasks, playlist_items,
                 audio_files, execution_history, player, pc, nextTick, tickNow,
                 pending, run, insertFailures, held, commands, reply>>

NextWindow == EvalWindow

SpecWindow == InitWindow /\ [][NextWindow]_vars

\* Any day of the week, task 1 with any cadence, with or without an earlier
\* row of task 1.
InitCadence ==
  /\ AtRest
  /\ now = 0
  /\ startDow \in 0..6
  /\ \E cd \in AllCadences :
       scheduled_tasks = [id \in TaskIds |-> TaskRow(<<0, 0>>, cd, 1, 80, 0, 0)]
  /\ execution_history \in
       {<< >>, <<[task_id |-> 1, status |-> "completed",
                  execution_time |-> -SecondsPerDay]>>}

\* The day test of lines 39-42 and 99-127 for task 1 on the current day.
EvalCadence ==
  /\ probe = NoProbe
  /\ probe' = [kind |-> "cadence",
               should_execute |->
                 ShouldExecute(scheduled_tasks[1].repeat_mode,
                               scheduled_tasks[1].custom_days,
                               NumberFromSunday(DowOf(now, startDow)),
                               HistoryCount(execution_history, 1))]
  /\ UNCHANGED <<now, tzOffset, startDow, threads, scheduled_tasks, playlist_items,
                 audio_files, execution_history, player, pc, nextTick, tickNow,
                 pending, run, insertFailures, held, commands, reply>>

NextCadence == EvalCadence

SpecCadence == InitCadence /\ [][NextCadence]_vars

\* ------------------------------------------------------ conflict detection

\* serde_json::from_str::<Vec<i32>>(days) succeeded on a present custom_days.
Parsed(days) == days.kind = "json"

\* custom_days.iter().any(|d| *d >= 0 && *d <= 5): Sunday taken for a
\* working day.
AnyWeekdayFromSunday(days) == \E d \in days : d >= 0 /\ d <= 5

\* custom_days.iter().any(|d| *d >= 1 && *d <= 5)
AnyWeekday(days) == \E d \in days : d >= 1 /\ d <= 5

\* The test for a weekend day with Sunday alone.
AnyWeekendSunday(days) == \E d \in days : d = 0

\* custom_days.iter().any(|d| *d == 0 || *d == 6)
AnyWeekend(days) == \E d \in days : d = 0 \/ d = 6

\* check_repeat_conflict without its last block, which handles a custom
\* first task against a weekday or weekend second task.
CheckRepeatConflictOneWay(mode1, days1, mode2, days2) ==
  IF mode1 = "once" \/ mode2 = "once" THEN TRUE
  ELSE IF mode1 = "daily" \/ mode2 = "daily" THEN TRUE
  ELSE IF mode1 = "weekday"
       THEN IF mode2 = "weekday" THEN TRUE
            ELSE mode2 = "custom" /\ Parsed(days2) /\ AnyWeekday(days2.days)
  ELSE IF mode1 = "weekend"
       THEN IF mode2 = "weekend" THEN TRUE
            ELSE mode2 = "custom" /\ Parsed(days2) /\ AnyWeekend(days2.days)
  ELSE IF mode1 = "custom" /\ mode2 = "custom" /\ Parsed(days1) /\ Parsed(days2)
       THEN \E d \in days1.days : d \in days2.days
  ELSE FALSE

\* check_repeat_conflict: whether two cadences can fall on the same day.
CheckRepeatConflict(mode1, days1, mode2, days2) ==
  IF mode1 = "once" \/ mode2 = "once" THEN TRUE
  ELSE IF mode1 = "daily" \/ mode2 = "daily" THEN TRUE
  ELSE IF mode1 = "weekday"
       THEN IF mode2 = "weekday" THEN TRUE
            ELSE mode2 = "custom" /\ Parsed(days2) /\ AnyWeekday(days2.days)
  ELSE IF mode1 = "weekend"
       THEN IF mode2 = "weekend" THEN TRUE
            ELSE mode2 = "custom" /\ Parsed(days2) /\ AnyWeekend(days2.days)
  ELSE IF mode1 = "custom" /\ mode2 = "custom" /\ Parsed(days1) /\ Parsed(days2)
       THEN \E d \in days1.days : d \in days2.days
  ELSE IF mode1 = "custom" /\ Parsed(days1) /\ mode2 = "weekday"
       THEN AnyWeekday(days1.days)
  ELSE IF mode1 = "custom" /\ Parsed(days1) /\ mode2 = "weekend"
       THEN AnyWeekend(days1.days)
  ELSE FALSE

\* The cadences a pair of tasks is drawn from: every cadence a task can
\* carry, a mode the program does not know, custom_days left on a task whose
\* mode is not custom, and custom days that name the number 7.
PairCadences ==
  AllCadences
    \cup {<<m, JsonDays({1})>> : m \in (RepeatModes \ {"custom"}) \cup {"hourly"}}
    \cup {<<"hourly", NoDays>>}
    \cup {<<"custom", JsonDays({7})>>, <<"custom", JsonDays({6, 7})>>}

\* Two tasks with any pair of cadences.
InitRepeat ==
  /\ AtRest
  /\ now = 0
  /\ startDow = 0
  /\ \E cd1, cd2 \in PairCadences :
       scheduled_tasks =
         [id \in TaskIds |-> TaskRow(<<7, 0>>, IF id = 1 THEN cd1 ELSE cd2, 1, 80, 0, 0)]
  /\ execution_history = << >>

\* check_repeat_conflict on the cadences of the two tasks, in both orders.
EvalRepeat ==
  /\ probe = NoProbe
  /\ probe' = [kind |-> "repeat",
               conflict |->
                 CheckRepeatConflict(scheduled_tasks[1].repeat_mode,
                                     scheduled_tasks[1].custom_days,
                                     scheduled_tasks[2].repeat_mode,
                                     scheduled_tasks[2].custom_days),
               reverse |->
                 CheckRepeatConflict(scheduled_tasks[2].repeat_mode,
                                     scheduled_tasks[2].custom_days,
                                     scheduled_tasks[1].repeat_mode,
                                     scheduled_tasks[1].custom_days)]
  /\ UNCHANGED <<now, tzOffset, startDow, threads, scheduled_tasks, playlist_items,
                 audio_files, execution_history, player, pc, nextTick, tickNow,
                 pending, run, insertFailures, held, commands, reply>>

NextRepeat == EvalRepeat

SpecRepeat == InitRepeat /\ [][NextRepeat]_vars

\* ------------------------------------------ conflict detection: time ranges

\* task_id is an Option<i64>: absent for a new task, the id of the task being
\* edited otherwise.
NoTaskId == [kind |-> "none", id |-> 0]
SomeTaskId(id) == [kind |-> "some", id |-> id]

\* SUM(af.duration) over the rows of playlist_items joined with audio_files.
RECURSIVE SumRows(_, _)
SumRows(rows, files) ==
  IF rows = {} THEN 0
  ELSE LET r == CHOOSE x \in rows : TRUE
       IN files[r.audio_id].duration + SumRows(rows \ {r}, files)

TotalSeconds(playlist_id, items, files) ==
  SumRows({r \in items : r.playlist_id = playlist_id /\ r.audio_id \in DOMAIN files},
          files)

\* The duration with the seconds of the playlist cut down to whole minutes.
EstimatedDurationFloor(duration_minutes, playlist_id, items, files) ==
  IF duration_minutes.kind = "some" THEN duration_minutes.minutes
  ELSE TotalSeconds(playlist_id, items, files) \div 60

\* estimated_duration and existing_duration: duration_minutes, else the
\* seconds of the playlist as (total_seconds + 59) / 60.
EstimatedDuration(duration_minutes, playlist_id, items, files) ==
  IF duration_minutes.kind = "some" THEN duration_minutes.minutes
  ELSE (TotalSeconds(playlist_id, items, files) + 59) \div 60

\* Every stored task, enabled or not.
EnabledTasksAll(tasks) == DOMAIN tasks

\* WHERE st.is_enabled = 1
EnabledTasks(tasks) == {id \in DOMAIN tasks : tasks[id].is_enabled}

\* No task is skipped.
ExcludedNever(task_id, id) == FALSE

\* The task being edited is skipped.
Excluded(task_id, id) == task_id.kind = "some" /\ id = task_id.id

\* The overlap test with the range of the candidate also laid over the next
\* and the previous day.
OverlapsAroundMidnight(start_time, end_time, existing_start, existing_end) ==
  \E shift \in {-1440, 0, 1440} :
    start_time + shift < existing_end /\ existing_start < end_time + shift

\* start_time < existing_end && existing_start < end_time
Overlaps(start_time, end_time, existing_start, existing_end) ==
  start_time < existing_end /\ existing_start < end_time

\* The ids the loop reaches the duration of: enabled, not the edited task,
\* and of a cadence that may fall on a day of the candidate.
Reached(c, tasks) ==
  {id \in EnabledTasks(tasks) :
     /\ ~Excluded(c.task_id, id)
     /\ CheckRepeatConflict(c.repeat_mode, c.custom_days,
                            tasks[id].repeat_mode, tasks[id].custom_days)}

\* The check with the end of every existing task taken from the duration of
\* the candidate.
CheckTaskConflictsCandidateLength(c, tasks, items, files) ==
  LET estimated_duration ==
        EstimatedDuration(c.duration_minutes, c.playlist_id, items, files)
      start_time == c.hour * 60 + c.minute
      end_time == start_time + estimated_duration
  IN {id \in Reached(c, tasks) :
        LET existing_start == tasks[id].hour * 60 + tasks[id].minute
            existing_end == existing_start + estimated_duration
        IN Overlaps(start_time, end_time, existing_start, existing_end)}

\* check_task_conflicts on the arguments c: the ids of the tasks reported.
CheckTaskConflicts(c, tasks, items, files) ==
  LET estimated_duration ==
        EstimatedDuration(c.duration_minutes, c.playlist_id, items, files)
      start_time == c.hour * 60 + c.minute
      end_time == start_time + estimated_duration
  IN {id \in Reached(c, tasks) :
        LET existing_duration ==
              EstimatedDuration(tasks[id].duration_minutes, tasks[id].playlist_id,
                                items, files)
            existing_start == tasks[id].hour * 60 + tasks[id].minute
            existing_end == existing_start + existing_duration
        IN Overlaps(start_time, end_time, existing_start, existing_end)}

\* The arguments of a call.
Args(task_id, tm, cd, du, pl) ==
  [task_id |-> task_id, hour |-> tm[1], minute |-> tm[2], repeat_mode |-> cd[1],
   custom_days |-> cd[2], duration_minutes |-> du, playlist_id |-> pl]

\* The arguments the editing form passes for a stored task left as it is.
ArgsOf(id, tasks) ==
  [task_id |-> SomeTaskId(id), hour |-> tasks[id].hour, minute |-> tasks[id].minute,
   repeat_mode |-> tasks[id].repeat_mode, custom_days |-> tasks[id].custom_days,
   duration_minutes |-> tasks[id].duration_minutes,
   playlist_id |-> tasks[id].playlist_id]

\* Seconds of the three audio files in the runs of conflict detection.
AudioSeconds == {<<10, 20, 30>>, <<51, 5, 5>>}

\* Rows of the two stored tasks: an enabled morning or late-evening task
\* against a task, enabled or not, shortly after 07:00, an hour after or just
\* past midnight.
ConflictRows(id) ==
  IF id = 1
  THEN {[TaskRow(tm, cd, d[2], 80, 0, 0) EXCEPT !.duration_minutes = d[1]] :
          tm \in {<<7, 0>>, <<23, 50>>},
          cd \in {<<"daily", NoDays>>, <<"custom", JsonDays({0, 6})>>},
          d \in {<<NoDuration, 1>>, <<NoDuration, 2>>, <<SomeDuration(0), 1>>,
                 <<SomeDuration(10), 1>>, <<SomeDuration(30), 1>>}}
  ELSE {[TaskRow(tm, cd, d[2], 80, 0, 0) EXCEPT !.duration_minutes = d[1],
                                               !.is_enabled = en] :
          tm \in {<<7, 5>>, <<8, 0>>, <<0, 5>>},
          cd \in {<<"weekday", NoDays>>, <<"weekend", NoDays>>},
          d \in {<<NoDuration, 3>>, <<SomeDuration(5), 1>>, <<SomeDuration(0), 2>>},
          en \in BOOLEAN}

\* Arguments for a task being created, or for task 1 being edited.
Candidates ==
  {Args(task_id, d[1], cd, d[2], d[3]) :
     task_id \in {NoTaskId, SomeTaskId(1)},
     cd \in {<<"daily", NoDays>>, <<"weekday", NoDays>>},
     d \in {<<<<7, 0>>, NoDuration, 3>>, <<<<7, 0>>, SomeDuration(10), 1>>,
            <<<<23, 50>>, SomeDuration(30), 1>>}}

InitConflict ==
  /\ now = 0
  /\ tzOffset = 0
  /\ startDow = 0
  /\ \E s \in AudioSeconds :
       audio_files = [a \in AudioIds |-> [AudioLibrary[a] EXCEPT !.duration = s[a]]]
  /\ playlist_items = PlaylistItems
  /\ scheduled_tasks \in {t \in [TaskIds -> UNION {ConflictRows(id) : id \in TaskIds}] :
                           \A id \in TaskIds : t[id] \in ConflictRows(id)}
  /\ execution_history = << >>
  /\ player = NewPlayer
  /\ pc = "sleep"
  /\ nextTick = 0
  /\ tickNow = 0
  /\ pending = << >>
  /\ run = NoRun
  /\ insertFailures = 0
  /\ held = {}
  /\ commands = 0
  /\ reply = NoReply
  /\ probe = NoProbe
  /\ threads = NoThreads

\* The call that also writes the resolved duration to the task being edited.
CheckConflictsStoring(c) ==
  /\ probe' = [kind |-> "conflicts", args |-> c,
               repeated |-> probe.kind = "conflicts" /\ probe.args = c,
               estimated_duration |->
                 EstimatedDuration(c.duration_minutes, c.playlist_id,
                                   playlist_items, audio_files),
               end_time |->
                 c.hour * 60 + c.minute
                   + EstimatedDuration(c.duration_minutes, c.playlist_id,
                                       playlist_items, audio_files),
               existing_duration |->
                 [id \in Reached(c, scheduled_tasks) |->
                    EstimatedDuration(scheduled_tasks[id].duration_minutes,
                                      scheduled_tasks[id].playlist_id,
                                      playlist_items, audio_files)],
               conflicts |->
                 CheckTaskConflicts(c, scheduled_tasks, playlist_items, audio_files)]
  /\ scheduled_tasks' =
       [id \in DOMAIN scheduled_tasks |->
          IF Excluded(c.task_id, id)
          THEN [scheduled_tasks[id] EXCEPT
                  !.duration_minutes =
                     SomeDuration(EstimatedDuration(c.duration_minutes, c.playlist_id,
                                                    playlist_items, audio_files))]
          ELSE scheduled_tasks[id]]
  /\ UNCHANGED <<now, tzOffset, startDow, threads, playlist_items,
                 audio_files, execution_history, player, pc, nextTick, tickNow,
                 pending, run, insertFailures, held, commands, reply>>

\* One call of the command check_task_conflicts. The record kept of it holds
\* the arguments, the candidate's duration and end, the duration resolved for
\* every task the loop reaches, the ids reported, and whether the call before
\* it had the same arguments.
CheckConflicts(c) ==
  /\ probe' = [kind |-> "conflicts", args |-> c,
               repeated |-> probe.kind = "conflicts" /\ probe.args = c,
               estimated_duration |->
                 EstimatedDuration(c.duration_minutes, c.playlist_id,
                                   playlist_items, audio_files),
               end_time |->
                 c.hour * 60 + c.minute
                   + EstimatedDuration(c.duration_minutes, c.playlist_id,
                                       playlist_items, audio_files),
               existing_duration |->
                 [id \in Reached(c, scheduled_tasks) |->
                    EstimatedDuration(scheduled_tasks[id].duration_minutes,
                                      scheduled_tasks[id].playlist_id,
                                      playlist_items, audio_files)],
               conflicts |->
                 CheckTaskConflicts(c, scheduled_tasks, playlist_items, audio_files)]
  /\ UNCHANGED <<now, tzOffset, startDow, threads, scheduled_tasks, playlist_items,
                 audio_files, execution_history, player, pc, nextTick, tickNow,
                 pending, run, insertFailures, held, commands, reply>>

\* The editing form checks a stored task with its own fields.
CheckStoredTask == \E id \in TaskIds : CheckConflicts(ArgsOf(id, scheduled_tasks))

\* The form checks a task being created, or task 1 with changed fields.
CheckCandidate == \E c \in Candidates : CheckConflicts(c)

NextConflict == CheckStoredTask \/ CheckCandidate

SpecConflict == InitConflict /\ [][NextConflict]_vars

\* ------------------------------------------- the poll loop: further starts

\* Times and priorities of tasks that fall due in one tick.
SameTickTimes == {<<6, 59>>, <<7, 0>>, <<7, 1>>}
Priorities == {0, 5}

\* The program is started at 07:00:00 or 07:01:00 of the last day followed,
\* in a time zone without offset and with a store that refuses no insert.
\* Task 1 has the empty playlist or the one whose second entry fails, task 2
\* a fade-in of 2 s and the empty playlist or the one that plays through.
InitPriority ==
  /\ now \in {(MaxDays - 1) * SecondsPerDay + 7 * 3600,
              (MaxDays - 1) * SecondsPerDay + 7 * 3600 + 60}
  /\ tzOffset = 0
  /\ startDow \in StartDays
  /\ \E tm1, tm2 \in SameTickTimes, pr1, pr2 \in Priorities,
        pl1 \in {2, 3}, pl2 \in {1, 2} :
       scheduled_tasks =
         [id \in TaskIds |->
            IF id = 1 THEN TaskRow(tm1, <<"daily", NoDays>>, pl1, 80, 0, pr1)
                      ELSE TaskRow(tm2, <<"daily", NoDays>>, pl2, 80, 2, pr2)]
  /\ playlist_items = PlaylistItems
  /\ audio_files = AudioLibrary
  /\ execution_history = << >>
  /\ player = NewPlayer
  /\ pc = "sleep"
  /\ nextTick = now
  /\ tickNow = now
  /\ pending = << >>
  /\ run = NoRun
  /\ insertFailures = MaxInsertFailures
  /\ held = {}
  /\ commands = 0
  /\ reply = NoReply
  /\ probe = NoProbe
  /\ threads = NoThreads

SpecPriority == InitPriority /\ [][Next]_vars

\* A tick in which a task is due and the query of the enabled tasks fails,
\* taken as the end of the loop.
TickFailsFatal ==
  /\ pc = "sleep"
  /\ LET t == Max(now, nextTick)
     IN /\ t < Horizon
        /\ DueAt(t)
        /\ now' = t
        /\ tickNow' = t
        /\ probe' = [kind |-> "load_failed", at |-> t]
  /\ pc' = "stopped"
  /\ UNCHANGED <<tzOffset, startDow, threads, commands, reply, held, insertFailures,
                 scheduled_tasks, playlist_items, audio_files, execution_history,
                 player, pending, run, nextTick>>

\* A tick in which a task is due and the query of the enabled tasks fails:
\* check_and_execute_tasks returns the error, the loop prints it and awaits
\* the next tick. (A failed query in a tick in which no task is due leaves
\* the same state as the idle tick.) The time of the failure is kept for the
\* statement of the properties.
TickFails ==
  /\ pc = "sleep"
  /\ LET t == Max(now, nextTick)
     IN /\ t < Horizon
        /\ DueAt(t)
        /\ now' = t
        /\ tickNow' = t
        /\ probe' = [kind |-> "load_failed", at |-> t]
  /\ nextTick' = nextTick + PollSeconds
  /\ UNCHANGED <<tzOffset, startDow, threads, commands, reply, held, insertFailures,
                 scheduled_tasks, playlist_items, audio_files, execution_history,
                 player, pc, pending, run>>

NextLoad == Next \/ TickFails

SpecLoad == InitPriority /\ [][NextLoad]_vars

\* toggle_scheduled_task: UPDATE scheduled_tasks SET is_enabled = ?1 WHERE
\* id = ?2. The task list a running tick has loaded is not touched.
ToggleTask ==
  /\ commands < MaxCommands
  /\ \E id \in TaskIds, enabled \in BOOLEAN :
       scheduled_tasks' = [scheduled_tasks EXCEPT ![id].is_enabled = enabled]
  /\ commands' = commands + 1
  /\ reply' = Reply("toggle_scheduled_task", "ok")
  /\ UNCHANGED <<now, tzOffset, startDow, threads, probe, playlist_items, audio_files,
                 execution_history, player, pc, nextTick, tickNow, pending, run,
                 insertFailures, held>>

NextEdit == Next \/ ToggleTask

SpecEdit == InitPriority /\ [][NextEdit]_vars

\* ------------------------------------------------------- the two mutexes

\* The calls seen as the lock operations they perform, in program order:
\* x.lock().await and the end of the guard's life (drop, end of block, return).
Lock(m) == <<"lock", m>>
Drop(m) == <<"drop", m>>

\* A block that takes one mutex and gives it back.
WithConn == <<Lock("db"), Drop("db")>>
WithPlayer == <<Lock("player"), Drop("player")>>

RECURSIVE Repeat(_, _)
Repeat(ops, n) == IF n = 0 THEN << >> ELSE ops \o Repeat(ops, n - 1)

\* One iteration of the entry loop of Scheduler::play_playlist: player_guard
\* for set_volume and play_with_info, dropped before the ramp or in the else
\* branch; one guard per step of the ramp; conn for the play count.
EntryOps(fade_in_duration) ==
  WithPlayer
    \o (IF fade_in_duration > 0 THEN Repeat(WithPlayer, fade_in_duration + 1) ELSE << >>)
    \o WithConn

\* Scheduler::play_playlist for a playlist of n entries: the query, the
\* queue, the entries, the completion.
SchedulerPlayPlaylistOps(n, fade_in_duration) ==
  WithConn
    \o (IF n = 0 THEN << >>
        ELSE WithPlayer \o Repeat(EntryOps(fade_in_duration), n) \o WithConn)

\* check_and_execute_tasks for one due task: the task query, the
\* already-executed query, the insert, the run, and the failed UPDATE when
\* the run returns an error.
CheckAndExecuteOps(n, fade_in_duration) ==
  WithConn \o WithConn \o WithConn
    \o SchedulerPlayPlaylistOps(n, fade_in_duration)
    \o (IF n = 0 THEN WithConn ELSE << >>)

\* play_audio with the guard of its query kept until the command returns.
PlayAudioOpsKeepsConn ==
  <<Lock("db"), Lock("player"), Drop("player"), Drop("db")>>

\* play_audio: conn for the query, then player, then conn for the count with
\* player still held.
PlayAudioOps ==
  <<Lock("db"), Drop("db"), Lock("player"), Lock("db"), Drop("db"), Drop("player")>>

\* play_next and play_previous with an audio to go to: player, and under it
\* conn for the query and conn for the count.
PlayNextOps ==
  <<Lock("player"), Lock("db"), Drop("db"), Lock("db"), Drop("db"), Drop("player")>>

\* set_speed with a current audio: player, and under it conn for the query.
SetSpeedOps == <<Lock("player"), Lock("db"), Drop("db"), Drop("player")>>

\* play_playlist: conn for the entries, then player, and under it conn for
\* the query of the first entry and conn for the count.
CmdPlayPlaylistOps ==
  <<Lock("db"), Drop("db"), Lock("player"), Lock("db"), Drop("db"),
    Lock("db"), Drop("db"), Drop("player")>>

\* The commands a handler may be running.
CommandOps ==
  {PlayAudioOps, PlayNextOps, SetSpeedOps, CmdPlayPlaylistOps,
   WithPlayer,    \* pause_audio, stop_audio, set_volume, get_playback_state
   WithConn}      \* the commands that use the store only

\* The parties that hold mutex m.
Holder(m) ==
  {p \in Parties : \E i \in DOMAIN threads[p].guards : threads[p].guards[i] = m}

\* What the lock operations leave alone.
LockFrame ==
  UNCHANGED <<now, tzOffset, startDow, scheduled_tasks, playlist_items, audio_files,
              execution_history, player, pc, nextTick, tickNow, pending, run,
              insertFailures, held, commands, reply, probe>>

\* A tick fires a task whose playlist has n entries.
CallScheduler ==
  /\ threads["scheduler"].ops = << >>
  /\ \E n \in 0..2, fade_in_duration \in 0..1 :
       threads' = [threads EXCEPT
                     !["scheduler"].ops = CheckAndExecuteOps(n, fade_in_duration)]
  /\ LockFrame

\* The user invokes a command; it is served by a handler that is free.
CallCommand ==
  /\ \E p \in Parties \ {"scheduler"}, ops \in CommandOps :
       /\ threads[p].ops = << >>
       /\ threads' = [threads EXCEPT ![p].ops = ops]
  /\ LockFrame

\* x.lock().await completes: the mutex is free and the party takes it.
Acquire ==
  /\ \E p \in Parties :
       /\ threads[p].ops # << >>
       /\ Head(threads[p].ops)[1] = "lock"
       /\ Holder(Head(threads[p].ops)[2]) = {}
       /\ threads' = [threads EXCEPT
                        ![p] = [ops |-> Tail(threads[p].ops),
                                guards |-> Append(threads[p].guards,
                                                  Head(threads[p].ops)[2])]]
  /\ LockFrame

\* A guard is dropped.
Release ==
  /\ \E p \in Parties :
       /\ threads[p].ops # << >>
       /\ Head(threads[p].ops)[1] = "drop"
       /\ threads' = [threads EXCEPT
                        ![p] = [ops |-> Tail(threads[p].ops),
                                guards |-> SelectSeq(threads[p].guards,
                                                     LAMBDA m : m # Head(threads[p].ops)[2])]]
  /\ LockFrame

InitLocks ==
  /\ AtRest
  /\ now = 0
  /\ startDow = 0
  /\ scheduled_tasks = [id \in TaskIds |-> TaskRow(<<7, 0>>, <<"daily", NoDays>>, 1, 80, 0, 0)]
  /\ execution_history = << >>

NextLocks == CallScheduler \/ CallCommand \/ Acquire \/ Release

SpecLocks == InitLocks /\ [][NextLocks]_vars

\* ================================================================== claims

\* The local time at which a row was inserted.
LocalTimeOf(row) == row.execution_time + tzOffset

\* The rows of a task.
RowsOf(id) == {i \in DOMAIN execution_history : execution_history[i].task_id = id}

\* The local time at which the firing window of task id opens on day d.
WindowStart(id, d) ==
  d * SecondsPerDay + (scheduled_tasks[id].hour * 60 + scheduled_tasks[id].minute) * 60

\* The rows the running tick has inserted for the task of the running call.
RowsOfRun ==
  {i \in RowsOf(run.task_id) :
     execution_history[i].execution_time >= DatetimeNow(tickNow, tzOffset)}

\* The poll loop is inside a play_playlist call.
InRun == pc \in {"play_playlist", "entry", "fade", "wait", "count", "complete"}

OneRowPerTaskPerDay ==
  \A id \in TaskIds : \A i, j \in RowsOf(id) :
    i # j => DayOf(LocalTimeOf(execution_history[i]))
               # DayOf(LocalTimeOf(execution_history[j]))

\* The days of the week (0 = Sunday) a cadence includes.
CadenceDays(repeat_mode, custom_days) ==
  CASE repeat_mode = "daily" -> 0..6
    [] repeat_mode = "weekday" -> 1..5
    [] repeat_mode = "weekend" -> {0, 6}
    [] repeat_mode = "custom" -> IF custom_days.kind = "json" THEN custom_days.days ELSE {}
    [] repeat_mode = "once" -> 0..6
    [] OTHER -> {}

\* C3: once the firing window of an enabled task has gone by on a day its
\* cadence includes (for a once task: the first day) and the poll loop is
\* back asleep, a row of the task was inserted since the window opened; stated
\* for the runs in which the store refused no insert.
DueTaskWasFired ==
  \A id \in TaskIds : \A d \in 0..(MaxDays - 1) :
    ( /\ pc = "sleep"
      /\ insertFailures = 0
      /\ scheduled_tasks[id].is_enabled
      /\ now >= WindowStart(id, d) + 120
      /\ DowOf(WindowStart(id, d), startDow)
           \in CadenceDays(scheduled_tasks[id].repeat_mode, scheduled_tasks[id].custom_days)
      /\ scheduled_tasks[id].repeat_mode = "once" => d = 0 )
    => \E i \in RowsOf(id) :
         /\ LocalTimeOf(execution_history[i]) >= WindowStart(id, d)
         /\ LocalTimeOf(execution_history[i]) < WindowStart(id, d) + SecondsPerDay

\* C4: no task has two rows inserted inside one firing window (the scheduled
\* minute and the minute after it); stated for a local time zone that is UTC.
NoRefireInWindow ==
  \A id \in TaskIds : \A i, j \in RowsOf(id) : \A d \in 0..(MaxDays - 1) :
    (tzOffset = 0 /\ i # j) =>
      ~ /\ LocalTimeOf(execution_history[i]) \in WindowStart(id, d)..(WindowStart(id, d) + 119)
        /\ LocalTimeOf(execution_history[j]) \in WindowStart(id, d)..(WindowStart(id, d) + 119)

\* C9: while play_playlist runs for a fired task, the tick has inserted a row
\* for that task.
RunHasItsRow == InRun => RowsOfRun # {}

\* C10: when the run of a fired task returns Ok its row is completed, when it
\* returns Err its row is failed, and a failed row stays failed; stated for
\* the runs in which the store refused no insert.
RunOutcomeRecorded ==
  [][ insertFailures' = 0 =>
      /\ (pc = "complete" /\ pc' = "for")
        => \A i \in RowsOfRun : execution_history'[i].status = "completed"
      /\ (pc \in {"play_playlist", "entry"} /\ pc' = "for")
        => \A i \in RowsOfRun : execution_history'[i].status = "failed"
      /\ \A i \in DOMAIN execution_history :
           execution_history[i].status = "failed"
             => execution_history'[i].status = "failed" ]_vars

\* The minute before (hour, minute), across the hour and across midnight.
MinuteBefore(hour, minute) ==
  LET k == (hour * 60 + minute + 1439) % 1440 IN <<k \div 60, k % 60>>

\* C5: at every current time the scheduled times that pass the time test are
\* the current minute and the minute before it, and no other.
FiringWindowExact ==
  probe.kind = "window" =>
    probe.matched = {<<HourOf(now), MinuteOf(now)>>,
                     MinuteBefore(HourOf(now), MinuteOf(now))}

\* C5 witness: at 10:00 the tasks of 09:59 and of 10:00 match.
WindowAtTen ==
  /\ probe.kind = "window"
  /\ HourOf(now) = 10 /\ MinuteOf(now) = 0
  /\ probe.matched = {<<9, 59>>, <<10, 0>>}

\* C6: a weekday task passes the day test exactly on Monday .. Friday.
WeekdayModeDays ==
  (probe.kind = "cadence" /\ scheduled_tasks[1].repeat_mode = "weekday")
    => (probe.should_execute <=> DowOf(now, startDow) \in 1..5)

\* C7: a weekend task passes the day test exactly on Sunday and Saturday.
WeekendModeDays ==
  (probe.kind = "cadence" /\ scheduled_tasks[1].repeat_mode = "weekend")
    => (probe.should_execute <=> DowOf(now, startDow) \in {0, 6})

\* C8: a custom task passes the day test exactly when custom_days is a JSON
\* array that holds the index of the day, 0 = Sunday .. 6 = Saturday.
CustomModeDays ==
  (probe.kind = "cadence" /\ scheduled_tasks[1].repeat_mode = "custom")
    => (probe.should_execute <=>
          /\ scheduled_tasks[1].custom_days.kind = "json"
          /\ DowOf(now, startDow) \in scheduled_tasks[1].custom_days.days)

FailedRunNotRetried ==
  \A id \in TaskIds : \A i, j \in RowsOf(id) :
    (i < j /\ execution_history[i].status = "failed")
      => /\ DayOf(LocalTimeOf(execution_history[i]))
              # DayOf(LocalTimeOf(execution_history[j]))
         /\ scheduled_tasks[id].repeat_mode # "once"

\* C13: a scheduled run whose queue a manual play_playlist replaced during
\* one of its sleeps goes no further once its wait has elapsed: it reaches
\* neither the update of the entry's play count, after which it stands at the
\* next entry or at the completion, nor the start of another entry.
SupersededRunStops ==
  run.superseded => pc \notin {"entry", "complete"}

\* C14: where the orchestrator sleeps (between the steps of the ramp and
\* during the wait of an entry) the poll loop's task holds neither the player
\* mutex nor the store mutex, and a command of the user can take the player
\* mutex.
SleepsWithoutLocks ==
  pc \in {"fade", "wait"}
    => /\ held = {}
       /\ commands < MaxCommands => CanCommand

\* C14 witness: stop_audio was served while a scheduled run without fade-in
\* was in the wait of an entry, and the run is still in that wait.
StopServedDuringWait ==
  /\ pc = "wait"
  /\ run.fade_in_duration = 0
  /\ reply.cmd = "stop_audio"
  /\ reply.at = "wait"

\* The steps a play_playlist call takes on a playlist that plays through:
\* for each entry in ascending sort_order its start, its wait and the update
\* of its play count.
RECURSIVE StepsOf(_)
StepsOf(entries) ==
  IF entries = << >> THEN << >>
  ELSE <<<<"start", Head(entries)>>, <<"wait", Head(entries)>>,
         <<"count", Head(entries)>>>> \o StepsOf(Tail(entries))

\* C15: the steps a scheduled play_playlist call has taken are an initial
\* part of the steps of its playlist in ascending sort_order: an entry is
\* started only after the wait and the count of the entry before it.
EntriesInSequence ==
  (InRun /\ pc # "play_playlist")
    => LET steps == StepsOf(Playlists[run.playlist_id])
       IN /\ Len(run.events) <= Len(steps)
          /\ run.events = SubSeq(steps, 1, Len(run.events))

\* C15 witness: the third entry of a playlist has been started.
ThirdEntryStarted ==
  /\ pc = "wait"
  /\ Len(run.events) = 7

\* The number of entries among the first n of a playlist that play an audio.
PlaysAmong(entries, n, audio_id) ==
  Cardinality({i \in 1..n : entries[i] = audio_id})

\* C16: when the start of entry k of a scheduled run fails, the call returns
\* at once: no step of the run follows, no play count changes, and the play
\* counts stand at their values at the call plus one for each entry before
\* k; entry k and the entries after it have added nothing.
StartFailureAborts ==
  [][(pc = "entry" /\ ~audio_files[Head(run.audio_files)].playable)
       => LET entries == Playlists[run.playlist_id]
              k == Len(entries) - Len(run.audio_files) + 1
          IN /\ pc' = "for"
             /\ run' = NoRun
             /\ audio_files' = audio_files
             /\ \A a \in AudioIds :
                  audio_files'[a].play_count
                    = run.counts0[a] + PlaysAmong(entries, k - 1, a)]_vars

\* C16 witness: a run of the playlist whose second entry cannot be opened
\* has returned with its row failed, after the first entry was counted.
SecondEntryFailed ==
  /\ pc = "for"
  /\ execution_history # << >>
  /\ execution_history[Len(execution_history)].status = "failed"
  /\ scheduled_tasks[execution_history[Len(execution_history)].task_id].playlist_id = 3
  /\ audio_files[2].play_count >= 1
  /\ audio_files[1].play_count = 0

QueueReplaced ==
  [][/\ (pc = "play_playlist" /\ pc' # pc /\ Playlists[run.playlist_id] # << >>)
          => /\ player'.playlist_queue = Playlists[run.playlist_id]
             /\ player'.current_index = 0
     /\ (commands' # commands /\ reply'.cmd = "play_playlist"
           /\ Playlists[reply'.playlist_id] # << >>)
          => /\ player'.playlist_queue = Playlists[reply'.playlist_id]
             /\ player'.current_index = 0]_vars

\* C19 witness: the manual command has replaced another queue whose position
\* play_next had moved on.
QueueReplacedAtLaterPosition ==
  /\ reply.cmd = "play_playlist"
  /\ reply.index_before > 0
  /\ reply.playlist_id = 3
  /\ player.playlist_queue = Playlists[3]
  /\ player.current_index = 0

IsStartOrCount(e) == e[1] \in {"start", "count"}

\* C20: the manual command and a scheduled run on the same playlist take the
\* same starts of entries and updates of play counts, in the same order: when
\* a scheduled run stands at its completion and the last command was a
\* successful manual play_playlist on the same playlist, the two sequences
\* are equal.
SamePlaybackSequence ==
  ( /\ pc = "complete"
    /\ reply.cmd = "play_playlist"
    /\ reply.result = "ok"
    /\ reply.playlist_id = run.playlist_id )
    => SelectSeq(run.events, IsStartOrCount) = reply.events

\* Two volumes are the same fraction.
SameVol(v, w) == v.num * w.den = w.num * v.den

\* Volume v is not above volume w.
VolAtMost(v, w) == v.num * w.den <= w.num * v.den

\* C21: with target V and a fade-in of n > 0 seconds, the step of the ramp
\* taken k seconds after the entry was started sets the device's volume to
\* k * V / n, for k up to n: V / n after one second and V after n seconds;
\* the volume is never above V during the run and is V from the end of the
\* ramp until the entry's count is updated.
FadeInRamp ==
  [][(InRun /\ run.fade_in_duration > 0)
       => /\ (pc = "fade" /\ run'.fade_i = run.fade_i + 1)
               => /\ now = run.entry_started + run.fade_i
                  /\ run.fade_i <= run.fade_in_duration
                  /\ SameVol(player'.volume,
                             Vol(run.fade_i * run.volume, run.fade_in_duration * 100))
          /\ pc' \in {"fade", "wait", "count"}
               => VolAtMost(player'.volume, Vol(run.volume, 100))
          /\ (pc' \in {"wait", "count"} /\ run' # NoRun)
               => /\ SameVol(player'.volume, Vol(run.volume, 100))
                  /\ now' >= run.entry_started + run.fade_in_duration]_vars

\* C21 witness: target 80 and a fade-in of 4 seconds; three seconds after the
\* start of the entry the step of the third second has set the volume to 60.
RampAtSixty ==
  /\ pc = "fade"
  /\ run.volume = 80
  /\ run.fade_in_duration = 4
  /\ run.fade_i = 4
  /\ now = run.entry_started + 4
  /\ SameVol(player.volume, Vol(60, 100))

\* C22: the step that starts an entry leaves it playing at the volume set
\* just before: 0 when a fade-in is configured, the first entry and every
\* later one alike, and volume / 100 when none is; never above the target.
EntryStartsAtSetVolume ==
  [][(pc = "entry" /\ pc' \in {"fade", "wait"})
       => /\ player'.sink = "playing"
          /\ player'.current_audio_id = Head(run.audio_files)
          /\ IF run.fade_in_duration > 0
             THEN player'.volume.num = 0
             ELSE SameVol(player'.volume, Vol(run.volume, 100))
          /\ VolAtMost(player'.volume, Vol(run.volume, 100))]_vars

\* C22 witness: with a fade-in the second entry of a run has been started at
\* volume 0, after the first had reached the target 80.
SecondEntryStartsSilent ==
  /\ pc = "fade"
  /\ run.fade_i = 0
  /\ run.volume = 80
  /\ Len(run.events) = 4
  /\ player.volume.num = 0

\* The collision table of the cadences: the days of the week on which two
\* tasks with day sets S1 and S2 can both be due.
CollisionTable(m1, S1, m2, S2) ==
  LET Days(m, S) == CASE m = "weekday" -> 1..5
                      [] m = "weekend" -> {0, 6}
                      [] m = "custom" -> S
  IN IF m1 \in {"once", "daily"} \/ m2 \in {"once", "daily"} THEN TRUE
     ELSE Days(m1, S1) \cap Days(m2, S2) # {}

\* C23: for the five modes and every pair of day sets over 0..6,
\* check_repeat_conflict is the collision table.
RepeatConflictIsTable ==
  ( /\ probe.kind = "repeat"
    /\ \A id \in TaskIds :
         /\ scheduled_tasks[id].repeat_mode \in RepeatModes
         /\ scheduled_tasks[id].repeat_mode = "custom"
              => Parsed(scheduled_tasks[id].custom_days) )
    => probe.conflict
         = CollisionTable(scheduled_tasks[1].repeat_mode, scheduled_tasks[1].custom_days.days,
                          scheduled_tasks[2].repeat_mode, scheduled_tasks[2].custom_days.days)

\* C23 witness: a custom task on Sunday and Monday against a weekday task.
CustomMeetsWeekday ==
  /\ probe.kind = "repeat"
  /\ scheduled_tasks[1].repeat_mode = "custom"
  /\ scheduled_tasks[1].custom_days = JsonDays({0, 1})
  /\ scheduled_tasks[2].repeat_mode = "weekday"
  /\ probe.conflict

\* C24: check_repeat_conflict gives the same answer for both orders of its
\* arguments, unknown modes and missing or unparsable custom_days included.
RepeatConflictSymmetric ==
  probe.kind = "repeat" => probe.conflict = probe.reverse

\* C24 witness: an unparsable custom task against a weekend task, and no
\* collision in either order.
UnparsableAgainstWeekend ==
  /\ probe.kind = "repeat"
  /\ scheduled_tasks[1].repeat_mode = "custom"
  /\ scheduled_tasks[1].custom_days = BadDays
  /\ scheduled_tasks[2].repeat_mode = "weekend"
  /\ ~probe.conflict
  /\ ~probe.reverse

\* Seconds of a playlist, entry by entry.
RECURSIVE SecondsOf(_)
SecondsOf(entries) ==
  IF entries = << >> THEN 0
  ELSE audio_files[Head(entries)].duration + SecondsOf(Tail(entries))

\* The least number of whole minutes that holds s seconds.
CeilMinutes(s) ==
  CHOOSE m \in 0..s : 60 * m >= s /\ \A k \in 0..s : 60 * k >= s => m <= k

\* The effective duration of a task or a candidate, in minutes.
EffectiveDuration(r) ==
  IF r.duration_minutes.kind = "some" THEN r.duration_minutes.minutes
  ELSE CeilMinutes(SecondsOf(Playlists[r.playlist_id]))

StartOf(r) == r.hour * 60 + r.minute
EndOf(r) == StartOf(r) + EffectiveDuration(r)

\* C25: between two stored enabled tasks A and B, the check with A's fields
\* excluding A reports B exactly if the check with B's fields excluding B
\* reports A.
ConflictSymmetric ==
  probe.kind = "conflicts"
    => \A a, b \in TaskIds :
         ( /\ a # b
           /\ scheduled_tasks[a].is_enabled
           /\ scheduled_tasks[b].is_enabled
           /\ probe.args = ArgsOf(a, scheduled_tasks) )
           => ( b \in probe.conflicts
                  <=> a \in CheckTaskConflicts(ArgsOf(b, scheduled_tasks), scheduled_tasks,
                                               playlist_items, audio_files) )

\* C25 witness: 07:00 daily for 10 minutes, checked with its own fields,
\* reports 07:05 weekday for 5 minutes.
StoredPairConflicts ==
  /\ probe.kind = "conflicts"
  /\ probe.args = ArgsOf(1, scheduled_tasks)
  /\ scheduled_tasks[1].is_enabled
  /\ scheduled_tasks[2].is_enabled
  /\ StartOf(scheduled_tasks[1]) = 420
  /\ scheduled_tasks[1].duration_minutes = SomeDuration(10)
  /\ StartOf(scheduled_tasks[2]) = 425
  /\ scheduled_tasks[2].duration_minutes = SomeDuration(5)
  /\ probe.conflicts = {2}

\* C26: the tasks reported are exactly the enabled ones, other than the
\* excluded one, whose cadence collides with the candidate's and whose range
\* of minutes [start, start + duration) overlaps the candidate's.
ConflictsExactly ==
  probe.kind = "conflicts"
    => probe.conflicts
         = {id \in TaskIds :
              /\ scheduled_tasks[id].is_enabled
              /\ probe.args.task_id # SomeTaskId(id)
              /\ CollisionTable(probe.args.repeat_mode, probe.args.custom_days.days,
                                scheduled_tasks[id].repeat_mode,
                                scheduled_tasks[id].custom_days.days)
              /\ StartOf(probe.args) < EndOf(scheduled_tasks[id])
              /\ StartOf(scheduled_tasks[id]) < EndOf(probe.args)}

\* C26 witness: a new task at 07:00, daily, for 10 minutes, against a weekday
\* task at 07:05 for 5 minutes, which is reported.
NewTaskMeetsWeekdayTask ==
  /\ probe.kind = "conflicts"
  /\ probe.args = Args(NoTaskId, <<7, 0>>, <<"daily", NoDays>>, SomeDuration(10), 1)
  /\ scheduled_tasks[2].is_enabled
  /\ scheduled_tasks[2].repeat_mode = "weekday"
  /\ StartOf(scheduled_tasks[2]) = 425
  /\ scheduled_tasks[2].duration_minutes = SomeDuration(5)
  /\ 2 \in probe.conflicts

\* C27: the duration used for the candidate and for every existing task is
\* duration_minutes when set, and otherwise the seconds of the playlist's
\* entries rounded up to whole minutes.
EffectiveDurationUsed ==
  probe.kind = "conflicts"
    => /\ probe.estimated_duration = EffectiveDuration(probe.args)
       /\ \A id \in DOMAIN probe.existing_duration :
            probe.existing_duration[id] = EffectiveDuration(scheduled_tasks[id])

\* C27 witness: a candidate whose playlist holds 61 s counts 2 minutes, and
\* an existing task with the empty playlist counts 0.
SixtyOneSecondsAndEmpty ==
  /\ probe.kind = "conflicts"
  /\ probe.args.duration_minutes = NoDuration
  /\ SecondsOf(Playlists[probe.args.playlist_id]) = 61
  /\ probe.estimated_duration = 2
  /\ 1 \in DOMAIN probe.existing_duration
  /\ scheduled_tasks[1].duration_minutes = NoDuration
  /\ Playlists[scheduled_tasks[1].playlist_id] = << >>
  /\ probe.existing_duration[1] = 0

\* C28: neither the excluded task nor a disabled task is ever reported.
NeverExcludedNorDisabled ==
  probe.kind = "conflicts"
    => \A id \in probe.conflicts :
         /\ scheduled_tasks[id].is_enabled
         /\ probe.args.task_id # SomeTaskId(id)

\* C28 witness: task 1 checked with its own fields against a disabled task
\* in the same minutes on colliding days: nothing is reported.
OwnRangeAndDisabledTask ==
  /\ probe.kind = "conflicts"
  /\ probe.args = ArgsOf(1, scheduled_tasks)
  /\ scheduled_tasks[1].is_enabled
  /\ StartOf(scheduled_tasks[1]) = 420
  /\ scheduled_tasks[1].repeat_mode = "daily"
  /\ scheduled_tasks[1].duration_minutes = SomeDuration(10)
  /\ ~scheduled_tasks[2].is_enabled
  /\ StartOf(scheduled_tasks[2]) = 425
  /\ scheduled_tasks[2].duration_minutes = SomeDuration(5)
  /\ probe.conflicts = {}

\* C29: a call of check_task_conflicts leaves tasks, playlists, audio files,
\* history and the player as they were, and a call repeated with the same
\* arguments reports the same tasks.
ConflictCheckReadOnly ==
  [][ (probe' # probe /\ probe'.kind = "conflicts")
        => /\ UNCHANGED <<scheduled_tasks, playlist_items, audio_files,
                          execution_history, player>>
           /\ probe'.repeated => probe'.conflicts = probe.conflicts ]_vars

\* C29 witness: a call repeated with the same arguments that reports a task.
RepeatedCallReports ==
  /\ probe.kind = "conflicts"
  /\ probe.repeated
  /\ probe.conflicts # {}

\* C30: a task whose range ends by the candidate's start, or starts at or
\* after the candidate's end, both counted in minutes from the same midnight
\* without wrapping at 1440, is not reported.
NoMidnightWrap ==
  probe.kind = "conflicts"
    => /\ probe.end_time = StartOf(probe.args) + EffectiveDuration(probe.args)
       /\ \A id \in TaskIds :
            ( \/ EndOf(scheduled_tasks[id]) <= StartOf(probe.args)
              \/ probe.end_time <= StartOf(scheduled_tasks[id]) )
              => id \notin probe.conflicts

\* C30 witness: a candidate at 23:50 for 30 minutes ends at 1460 and an
\* enabled task of a colliding cadence at 00:05 for 5 minutes is not reported.
LateTaskPastMidnight ==
  /\ probe.kind = "conflicts"
  /\ StartOf(probe.args) = 1430
  /\ probe.end_time = 1460
  /\ 2 \in DOMAIN probe.existing_duration
  /\ StartOf(scheduled_tasks[2]) = 5
  /\ probe.existing_duration[2] = 5
  /\ 2 \notin probe.conflicts

\* The rows inserted before local time t.
RowsBefore(t) ==
  SelectSeq(execution_history, LAMBDA r : r.execution_time < DatetimeNow(t, tzOffset))

\* Task a need not come after task b: higher priority, or the same priority
\* and no later time of day.
NotAfter(a, b) ==
  \/ scheduled_tasks[a].priority > scheduled_tasks[b].priority
  \/ /\ scheduled_tasks[a].priority = scheduled_tasks[b].priority
     /\ StartOf(scheduled_tasks[a]) <= StartOf(scheduled_tasks[b])

\* C31: a task is fired only while no due task of the tick precedes it by
\* priority (descending), hour and minute; and a tick ends only when every
\* enabled task that passed the time, day and already-executed tests when the
\* tick began has been fired, whatever its priority.
FiredInPriorityOrder ==
  [][ /\ (pc = "for" /\ pc' = "play_playlist")
        => \A b \in TaskIds \ {run'.task_id} :
             ( /\ scheduled_tasks[b].is_enabled
               /\ IsDue(b, scheduled_tasks[b], execution_history, tickNow, startDow) )
               => NotAfter(run'.task_id, b)
      /\ (pc = "for" /\ pc' = "sleep")
        => \A b \in TaskIds :
             ( /\ scheduled_tasks[b].is_enabled
               /\ IsDue(b, scheduled_tasks[b], RowsBefore(tickNow), tickNow, startDow) )
               => \E i \in DOMAIN execution_history :
                    /\ execution_history[i].task_id = b
                    /\ execution_history[i].execution_time
                         >= DatetimeNow(tickNow, tzOffset) ]_vars

\* C31 witness: task 2 at 07:00 with priority 5 and task 1 at 06:59 with
\* priority 0 are due in the tick of 07:00:00; task 2 is fired first and
\* task 1 after it.
LowerPriorityFiredSecond ==
  /\ scheduled_tasks[1].priority = 0
  /\ StartOf(scheduled_tasks[1]) = 419
  /\ scheduled_tasks[2].priority = 5
  /\ StartOf(scheduled_tasks[2]) = 420
  /\ Len(execution_history) = 2
  /\ execution_history[1].task_id = 2
  /\ execution_history[2].task_id = 1
  /\ pc = "sleep"

\* C32: a tick whose query of the tasks fails inserts no row, leaves the
\* device and the play counts alone and starts no run, and the loop goes on
\* to await the tick that follows it.
FailedLoadSkipsTick ==
  [][ (probe' # probe /\ probe'.kind = "load_failed")
        => /\ UNCHANGED <<execution_history, player, audio_files, run,
                          scheduled_tasks, playlist_items>>
           /\ pc' = "sleep"
           /\ nextTick' = nextTick + PollSeconds ]_vars

\* C32 witness: a task is fired by a tick later than the one whose query
\* failed.
FiredAfterFailedLoad ==
  /\ probe.kind = "load_failed"
  /\ \E i \in DOMAIN execution_history :
       execution_history[i].execution_time
         >= DatetimeNow(probe.at, tzOffset) + PollSeconds

\* C33: for the tick being evaluated, a row inserted before it counts as
\* executed today exactly if it was inserted on the tick's local day.
ExecutedTodayIsLocalDay ==
  pc = "for"
    => \A i \in DOMAIN execution_history :
         LocalTimeOf(execution_history[i]) <= tickNow
           => ( AlreadyExecutedToday(<<execution_history[i]>>,
                                     execution_history[i].task_id, tickNow)
                  <=> DayOf(LocalTimeOf(execution_history[i])) = DayOf(tickNow) )

\* C34: the run leaves an entry exactly when the entry's recorded duration
\* has passed since its playback was started.
AdvancesAtRecordedDuration ==
  pc = "count"
    => now = run.entry_started + audio_files[Head(run.audio_files)].duration

\* C35: a step that records the outcome of a run changes the status of no
\* row other than the one inserted for that run.
OutcomeTouchesOnlyOwnRow ==
  [][ Len(execution_history') = Len(execution_history)
        => \A i \in DOMAIN execution_history :
             i # run.row => execution_history'[i].status = execution_history[i].status ]_vars

\* C36: a tick is taken and a task is fired only while no run is in progress,
\* and the task of the run in progress never changes to another task.
OneRunAtATime ==
  [][ /\ (nextTick' # nextTick \/ (pc = "for" /\ pc' = "play_playlist"))
        => run = NoRun
      /\ run'.task_id # run.task_id => (run.task_id = 0 \/ run'.task_id = 0) ]_vars

\* C36 witness: two tasks are due in one tick; the run of task 2 is under
\* way after the run of task 1 has ended.
SecondRunAfterFirst ==
  /\ Len(execution_history) = 2
  /\ execution_history[1].task_id = 1
  /\ execution_history[1].status = "failed"
  /\ execution_history[2].task_id = 2
  /\ execution_history[2].status = "started"
  /\ run.task_id = 2
  /\ pc = "wait"

\* C37: a task is fired only if, at the moment of the firing, it is enabled
\* and the time of day is inside its firing window.
FiredOnlyIfEnabledAndDue ==
  [][ (pc = "for" /\ pc' = "play_playlist")
        => /\ scheduled_tasks[run'.task_id].is_enabled
           /\ TimeMatches(scheduled_tasks[run'.task_id].hour,
                          scheduled_tasks[run'.task_id].minute,
                          HourOf(now), MinuteOf(now)) ]_vars

\* The mutex a party is about to take, and whether it has to wait for it.
Wants(p) ==
  IF threads[p].ops # << >> /\ Head(threads[p].ops)[1] = "lock"
  THEN {Head(threads[p].ops)[2]} ELSE {}
WaitsFor(p, q) == \E m \in Wants(p) : q \in Holder(m)

\* C38: a party that holds both mutexes took player before db, the poll
\* loop never holds more than one, and no party waits for a mutex it holds
\* itself nor do two or three parties wait for one another in a circle.
LocksNeverDeadlock ==
  /\ \A p \in Parties :
       /\ threads[p].guards \in {<< >>, <<"player">>, <<"db">>, <<"player", "db">>}
       /\ threads[p].guards # << >> => threads[p].ops # << >>
  /\ Len(threads["scheduler"].guards) <= 1
  /\ \A p, q, r \in Parties :
       /\ ~WaitsFor(p, p)
       /\ ~(WaitsFor(p, q) /\ WaitsFor(q, p))
       /\ ~(WaitsFor(p, q) /\ WaitsFor(q, r) /\ WaitsFor(r, p))

\* C38 witness: a command holds both mutexes while the poll loop waits for
\* player and the other command waits for db.
BothHeldOthersWait ==
  /\ threads["command1"].guards = <<"player", "db">>
  /\ Wants("scheduler") = {"player"}
  /\ Wants("command2") = {"db"}

\* The scheduler's day test passes for the task on the day of the week dow
\* (0 = Sunday), the task not having run before.
FiresOn(task, dow) ==
  ShouldExecute(task.repeat_mode, task.custom_days, NumberFromSunday(dow), 0)

QueueIndexIsCurrent ==
  (player.playlist_queue # << >> /\ player.current_audio_id # 0)
    => /\ player.current_index < Len(player.playlist_queue)
       /\ player.playlist_queue[player.current_index + 1] = player.current_audio_id

====
